---- MODULE Spec2Model ----
(***************************************************************************)
(* Variational layers of warrenzha/dmgp: Linear / ConvNd / ConvTransposeNd *)
(* with the Reparameterization and the Flipout estimator                   *)
(* (src/dmgp/layers/linear.py, src/dgp_sparse/layers/conv.py).             *)
(*                                                                         *)
(* Real numbers are fixed-point integers with three decimals (1000 = 1.0). *)
(* A tensor is a record [none, shape, v]: v holds the elements in          *)
(* row-major order; None is the tensor record with none = TRUE.            *)
(***************************************************************************)
EXTENDS Integers, Sequences, FiniteSets, TLC

VARIABLES layer, dnn_to_bnn_flag, ctor, call

vars == <<layer, dnn_to_bnn_flag, ctor, call>>

(* ---------------------------------------------------------------- bounds *)
MaxChannels == 2
MaxGroups == 2
MaxKernel == 2
MaxBatch == 2
MaxStride == 2

(* ------------------------------------------------------------ fixed point *)
FMul(a, b) == (a * b) \div 1000

(* ---------------------------------------------------------------- tensors *)
RECURSIVE Numel(_)
Numel(shape) == IF shape = <<>> THEN 1 ELSE Head(shape) * Numel(Tail(shape))

None == [none |-> TRUE, shape |-> <<>>, v |-> <<>>]

Tensor(shape, v) == [none |-> FALSE, shape |-> shape, v |-> v]

\* a tensor of the given shape whose elements repeat the pattern pat
PatTensor(shape, pat) ==
    Tensor(shape, [i \in 1..Numel(shape) |-> pat[((i - 1) % Len(pat)) + 1]])

Fill(shape, c) == PatTensor(shape, <<c>>)

\* a + b and a * b, elementwise, for two tensors of the same shape
TAdd(a, b) == Tensor(a.shape, [i \in 1..Len(a.v) |-> a.v[i] + b.v[i]])

TMul(a, b) == Tensor(a.shape, [i \in 1..Len(a.v) |-> FMul(a.v[i], b.v[i])])

RECURSIVE SumSeq(_)
SumSeq(s) == IF s = <<>> THEN 0 ELSE Head(s) + SumSeq(Tail(s))

\* torch broadcasting of two shapes of equal rank
Broadcastable(s1, s2) ==
    /\ Len(s1) = Len(s2)
    /\ \A d \in 1..Len(s1) : s1[d] = s2[d] \/ s1[d] = 1 \/ s2[d] = 1

BroadcastShape(s1, s2) ==
    [d \in 1..Len(s1) |-> IF s1[d] = 1 THEN s2[d] ELSE s1[d]]

\* row-major multi-index (0-based entries) of the 0-based flat index i
RECURSIVE Unflatten(_, _)
Unflatten(i, shape) ==
    IF shape = <<>> THEN <<>>
    ELSE LET rest == Numel(Tail(shape))
         IN  <<i \div rest>> \o Unflatten(i % rest, Tail(shape))

RECURSIVE Flatten(_, _)
Flatten(idx, shape) ==
    IF shape = <<>> THEN 0
    ELSE Head(idx) * Numel(Tail(shape)) + Flatten(Tail(idx), Tail(shape))

\* the element of t that position idx of the broadcast result reads
BroadcastAt(t, idx) ==
    t.v[Flatten([d \in 1..Len(idx) |-> IF t.shape[d] = 1 THEN 0 ELSE idx[d]],
                t.shape) + 1]

(* ---------------------------------------------------------------- classes *)
Ops == {"Linear", "Conv1d", "Conv2d", "Conv3d",
        "ConvTranspose1d", "ConvTranspose2d", "ConvTranspose3d"}

Estimators == {"Reparameterization", "Flipout"}

\* the fourteen layer classes, e.g. [op |-> "Conv2d", est |-> "Flipout"]
Classes == [op : Ops, est : Estimators]

Cls(op, est) == [op |-> op, est |-> est]

IsLinear(cls) == cls.op = "Linear"

IsTransposed(cls) ==
    cls.op \in {"ConvTranspose1d", "ConvTranspose2d", "ConvTranspose3d"}

\* number of spatial dimensions of the class's operation
NDims(cls) ==
    CASE cls.op = "Linear" -> 0
      [] cls.op \in {"Conv1d", "ConvTranspose1d"} -> 1
      [] cls.op \in {"Conv2d", "ConvTranspose2d"} -> 2
      [] cls.op \in {"Conv3d", "ConvTranspose3d"} -> 3

(* ------------------------------------------------------------ construction *)
\* a kernel_size argument: an int k is [tuple |-> FALSE, v |-> <<k>>],
\* a tuple (k1, .., kn) is [tuple |-> TRUE, v |-> <<k1, .., kn>>]
KInt(k) == [tuple |-> FALSE, v |-> <<k>>]

KTuple(ks) == [tuple |-> TRUE, v |-> ks]

Ok(v) == [kind |-> "ok", v |-> v, exc |-> ""]

Raise(exc) == [kind |-> "raise", v |-> <<>>, exc |-> exc]

\* base_variational_layer.get_kernel_size(x, n): an int becomes n copies, a
\* tuple must have length n
get_kernel_size(x, n) ==
    IF ~x.tuple THEN Ok([i \in 1..n |-> x.v[1]])
    ELSE IF Len(x.v) = n THEN Ok(x.v)
    ELSE Raise("InvalidConfiguration")

\* variant of ValidatesGroups in which no class checks divisibility
ValidatesGroups_Never(cls) == FALSE

\* the ValueError checks at the head of __init__: present in the six
\* convolutional Reparameterization classes, absent from Linear* and from
\* every *Flipout class
ValidatesGroups(cls) == ~IsLinear(cls) /\ cls.est = "Reparameterization"

GroupsCheck(cls, a) ==
    IF ValidatesGroups(cls)
       /\ (a.in_channels % a.groups # 0 \/ a.out_channels % a.groups # 0)
    THEN Raise("ValueError")
    ELSE Ok(<<>>)

\* the kernel dimensions handed to torch.Tensor(...): the 2d and 3d classes
\* normalise with get_kernel_size, the 1d classes pass kernel_size itself, and
\* torch.Tensor rejects a size argument that is itself a tuple
KernelDims(cls, a) ==
    CASE NDims(cls) = 0 -> Ok(<<>>)
      [] NDims(cls) = 1 ->
            IF a.kernel_size.tuple THEN Raise("TypeError")
            ELSE Ok(a.kernel_size.v)
      [] OTHER -> get_kernel_size(a.kernel_size, NDims(cls))

\* shape of mu, rho, eps and prior_weight_mu
WeightShape(cls, a, ks) ==
    IF IsLinear(cls) THEN <<a.out_channels, a.in_channels>>
    ELSE IF IsTransposed(cls)
         THEN <<a.in_channels, a.out_channels \div a.groups>> \o ks
         ELSE <<a.out_channels, a.in_channels \div a.groups>> \o ks

\* shape of prior_weight_sigma
PriorWeightSigmaShape(cls, a, ks) ==
    IF cls.est = "Flipout" /\ cls.op \in {"ConvTranspose1d", "ConvTranspose2d"}
    THEN <<a.out_channels, a.in_channels \div a.groups>> \o ks
    ELSE WeightShape(cls, a, ks)

BiasShape(a) == <<a.out_channels>>

\* the Reparameterization classes store the two posterior initialisers with a
\* trailing comma, i.e. as one-element tuples; the Flipout classes as scalars
StoreInit(cls, x) == IF cls.est = "Reparameterization" THEN <<x>> ELSE x

\* variant of ReadInit that reads the default of the constructors
ReadInit_Default(cls, stored) == 0

ReadInit(cls, stored) ==
    IF cls.est = "Reparameterization" THEN stored[1] ELSE stored

\* tensor.data.normal_(mean, std) with the standard-normal draw z (a pattern)
normal_(t, mean, std, z) ==
    Tensor(t.shape, [i \in 1..Numel(t.shape) |->
                        mean + FMul(std, z[((i - 1) % Len(z)) + 1])])

\* variant of fill_ that leaves the tensor as it was allocated
fill_Kept(t, c) == t

\* tensor.fill_(c)
fill_(t, c) == Fill(t.shape, c)

\* the test that guards every bias branch: LinearReparameterization and
\* LinearFlipout test "self.mu_bias is not None", the conv classes "self.bias"
HasBias(l) == IF IsLinear(l.cls) THEN ~l.mu_bias.none ELSE l.bias

\* init_parameters(): d holds the standard-normal draws of the four normal_
\* calls
init_parameters(l, d) ==
    LET w == [l EXCEPT
                !.prior_weight_mu = fill_(l.prior_weight_mu, l.prior_mean),
                !.prior_weight_sigma =
                    fill_(l.prior_weight_sigma, l.prior_variance),
                !.mu_weight =
                    normal_(l.mu_weight,
                            ReadInit(l.cls, l.posterior_mu_init), 100, d.mu_w),
                !.rho_weight =
                    normal_(l.rho_weight,
                            ReadInit(l.cls, l.posterior_rho_init), 100, d.rho_w)]
    IN  IF HasBias(l)
        THEN [w EXCEPT
                !.prior_bias_mu = fill_(l.prior_bias_mu, l.prior_mean),
                !.prior_bias_sigma = fill_(l.prior_bias_sigma, l.prior_variance),
                !.mu_bias =
                    normal_(l.mu_bias,
                            ReadInit(l.cls, l.posterior_mu_init), 100, d.mu_b),
                !.rho_bias =
                    normal_(l.rho_bias,
                            ReadInit(l.cls, l.posterior_rho_init), 100, d.rho_b)]
        ELSE w

NoLayer == [exists |-> FALSE]

\* variant of BiasTensor that allocates the tensor whatever bias is
BiasTensor_Always(a, g) == Fill(BiasShape(a), g)

\* "if bias: self.<name> = Parameter(torch.Tensor(out)) / register_buffer(..)
\*  else: self.register_parameter('<name>', None) / register_buffer(.., None)"
BiasTensor(a, g) == IF a.bias THEN Fill(BiasShape(a), g) ELSE None

\* the object __init__ has built when it reaches init_parameters(): g is the
\* content of the memory torch.Tensor(...) returns uninitialised. The fields
\* carry the names of the Linear classes: the conv classes call mu_weight,
\* rho_weight and eps_weight mu_kernel, rho_kernel and eps_kernel, and
\* in_channels / out_channels are in_features / out_features of Linear.
Allocate(cls, a, ks, g) ==
    [exists |-> TRUE,
     cls |-> cls,
     in_channels |-> a.in_channels,
     out_channels |-> a.out_channels,
     kernel_size |-> a.kernel_size,
     stride |-> a.stride,
     padding |-> a.padding,
     dilation |-> a.dilation,
     groups |-> a.groups,
     output_padding |-> a.output_padding,
     prior_mean |-> a.prior_mean,
     prior_variance |-> a.prior_variance,
     posterior_mu_init |-> StoreInit(cls, a.posterior_mu_init),
     posterior_rho_init |-> StoreInit(cls, a.posterior_rho_init),
     bias |-> a.bias,
     mu_weight |-> Fill(WeightShape(cls, a, ks), g),
     rho_weight |-> Fill(WeightShape(cls, a, ks), g),
     eps_weight |-> Fill(WeightShape(cls, a, ks), g),
     prior_weight_mu |-> Fill(WeightShape(cls, a, ks), g),
     prior_weight_sigma |-> Fill(PriorWeightSigmaShape(cls, a, ks), g),
     mu_bias |-> BiasTensor(a, g),
     rho_bias |-> BiasTensor(a, g),
     eps_bias |-> BiasTensor(a, g),
     prior_bias_mu |-> BiasTensor(a, g),
     prior_bias_sigma |-> BiasTensor(a, g),
     quant_prepare |-> FALSE]

\* names of the tensors a layer holds
TensorFields(l) ==
    {f \in {"mu_weight", "rho_weight", "eps_weight", "prior_weight_mu",
            "prior_weight_sigma", "mu_bias", "rho_bias", "eps_bias",
            "prior_bias_mu", "prior_bias_sigma"} : ~l[f].none}

\* __init__: the result of the call, the object it leaves (NoLayer when it
\* raised) and the tensors allocated by then
Construct(cls, a, g, d) ==
    LET chk == GroupsCheck(cls, a)
        ks  == KernelDims(cls, a)
    IN  IF chk.kind = "raise"
        THEN [ret |-> chk, layer |-> NoLayer, allocated |-> {}]
        ELSE IF ks.kind = "raise"
        THEN [ret |-> ks, layer |-> NoLayer, allocated |-> {}]
        ELSE LET l == init_parameters(Allocate(cls, a, ks.v, g), d)
             IN  [ret |-> Ok(<<>>), layer |-> l, allocated |-> TensorFields(l)]

(* --------------------------------------------------------------- numerics *)
\* torch.log1p(torch.exp(rho)) for rho on the grid -3.5, -3.4, .., 0.5
SoftplusTable ==
    <<30, 33, 36, 40, 44, 49, 54, 59, 65, 72, 79, 87, 96, 105, 116, 127, 139,
      153, 168, 184, 201, 220, 241, 263, 287, 313, 341, 371, 403, 437, 474,
      513, 554, 598, 644, 693, 744, 798, 854, 913, 974>>

softplus(rho) == SoftplusTable[((rho + 3500) \div 100) + 1]

\* variant of Sigma that returns the value from before the last optimizer step
Sigma_Stale(rho) ==
    Tensor(rho.shape,
           [i \in 1..Len(rho.v) |->
               softplus(IF rho.v[i] < -1500 THEN rho.v[i] + 2000 ELSE rho.v[i])])

\* sigma = torch.log1p(torch.exp(rho)), elementwise
Sigma(rho) == Tensor(rho.shape, [i \in 1..Len(rho.v) |-> softplus(rho.v[i])])

\* torch.log(x) for the standard deviations that occur
Ln(x) ==
    CASE x = 30 -> -3507 [] x = 33 -> -3411 [] x = 36 -> -3324
      [] x = 40 -> -3219 [] x = 44 -> -3124 [] x = 49 -> -3016
      [] x = 54 -> -2919 [] x = 59 -> -2830 [] x = 65 -> -2733
      [] x = 72 -> -2631 [] x = 79 -> -2538 [] x = 87 -> -2442
      [] x = 96 -> -2343 [] x = 105 -> -2254 [] x = 116 -> -2154
      [] x = 127 -> -2064 [] x = 139 -> -1973 [] x = 153 -> -1877
      [] x = 168 -> -1784 [] x = 184 -> -1693 [] x = 201 -> -1604
      [] x = 220 -> -1514 [] x = 241 -> -1423 [] x = 263 -> -1336
      [] x = 287 -> -1248 [] x = 313 -> -1162 [] x = 341 -> -1076
      [] x = 371 -> -992 [] x = 403 -> -909 [] x = 437 -> -828
      [] x = 474 -> -747 [] x = 500 -> -693 [] x = 513 -> -667
      [] x = 554 -> -591 [] x = 598 -> -514 [] x = 644 -> -440
      [] x = 693 -> -367 [] x = 744 -> -296 [] x = 798 -> -226
      [] x = 854 -> -158 [] x = 913 -> -91 [] x = 974 -> -26
      [] x = 1000 -> 0 [] x = 2000 -> 693

\* one element of the closed-form KL of two Gaussians
KlElem(mu_q, sigma_q, mu_p, sigma_p) ==
    Ln(sigma_p) - Ln(sigma_q)
    + ((sigma_q * sigma_q + (mu_q - mu_p) * (mu_q - mu_p)) * 1000)
          \div (2 * sigma_p * sigma_p)
    - 500

\* the float value nan, which the closed form yields for a standard deviation
\* that is not positive: log(0) is -inf and the quotient +inf, their sum nan,
\* and the log of a negative number is nan
NaN == -999999999

\* a + b on floats
KlAdd(a, b) == IF a = NaN \/ b = NaN THEN NaN ELSE a + b

\* variant of kl_div that validates the prior standard deviation
kl_div_Validating(mu_q, sigma_q, mu_p, sigma_p) ==
    IF \E i \in 1..Len(sigma_p.v) : sigma_p.v[i] <= 0
    THEN Raise("ValueError")
    ELSE Ok(SumSeq([i \in 1..Len(mu_q.v) |->
                      KlElem(mu_q.v[i], sigma_q.v[i], mu_p.v[i], sigma_p.v[i])]))

\* variant of kl_div that averages over the elements
kl_div_Mean(mu_q, sigma_q, mu_p, sigma_p) ==
    Ok(SumSeq([i \in 1..Len(mu_q.v) |->
                 KlElem(mu_q.v[i], sigma_q.v[i], mu_p.v[i], sigma_p.v[i])])
       \div Len(mu_q.v))

\* _BaseVariationalLayer.kl_div: the elementwise KL under torch broadcasting,
\* summed over every element (four tensors of one shape need no broadcasting
\* and are paired by position)
kl_div(mu_q, sigma_q, mu_p, sigma_p) ==
    IF \E i \in 1..Len(sigma_p.v) : sigma_p.v[i] <= 0
    THEN Ok(NaN)
    ELSE IF mu_q.shape = mu_p.shape /\ sigma_q.shape = sigma_p.shape
       /\ mu_q.shape = sigma_q.shape
    THEN Ok(SumSeq([i \in 1..Len(mu_q.v) |->
                      KlElem(mu_q.v[i], sigma_q.v[i], mu_p.v[i], sigma_p.v[i])]))
    ELSE IF ~(Broadcastable(mu_q.shape, mu_p.shape)
              /\ Broadcastable(sigma_q.shape, sigma_p.shape)
              /\ Broadcastable(BroadcastShape(mu_q.shape, mu_p.shape),
                               BroadcastShape(sigma_q.shape, sigma_p.shape)))
    THEN Raise("RuntimeError")
    ELSE LET shape == BroadcastShape(BroadcastShape(mu_q.shape, mu_p.shape),
                                     BroadcastShape(sigma_q.shape, sigma_p.shape))
         IN  Ok(SumSeq([i \in 1..Numel(shape) |->
                 LET idx == Unflatten(i - 1, shape)
                 IN  KlElem(BroadcastAt(mu_q, idx), BroadcastAt(sigma_q, idx),
                            BroadcastAt(mu_p, idx), BroadcastAt(sigma_p, idx))]))

\* kl_loss()
kl_loss(l) ==
    LET sigma_weight == Sigma(l.rho_weight)
        kl == kl_div(l.mu_weight, sigma_weight, l.prior_weight_mu,
                     l.prior_weight_sigma)
        sigma_bias == Sigma(l.rho_bias)
        kl_bias == kl_div(l.mu_bias, sigma_bias, l.prior_bias_mu,
                          l.prior_bias_sigma)
    IN  IF kl.kind = "raise" THEN kl
        ELSE IF HasBias(l)
        THEN IF kl_bias.kind = "raise" THEN kl_bias
             ELSE Ok(KlAdd(kl.v, kl_bias.v))
        ELSE kl

(* ------------------------------------------------ deterministic operation *)
\* one invocation of F.linear / F.convNd / F.conv_transposeNd with the
\* arguments the layer binds
\* variant of OpCall that hands the transposed operations dilation and groups
\* in the order of the plain convolutions
OpCall_ConvOrder(l, input, weight, bias) ==
    [fn |-> l.cls.op,
     input |-> input,
     weight |-> weight,
     bias |-> bias,
     stride |-> IF IsLinear(l.cls) THEN 1 ELSE l.stride,
     padding |-> IF IsLinear(l.cls) THEN 0 ELSE l.padding,
     dilation |-> IF IsLinear(l.cls) THEN 1
                  ELSE IF IsTransposed(l.cls) THEN l.groups ELSE l.dilation,
     groups |-> IF IsLinear(l.cls) THEN 1
                ELSE IF IsTransposed(l.cls) THEN l.dilation ELSE l.groups,
     output_padding |-> IF IsTransposed(l.cls) THEN l.output_padding ELSE 0]

OpCall(l, input, weight, bias) ==
    [fn |-> l.cls.op,
     input |-> input,
     weight |-> weight,
     bias |-> bias,
     stride |-> IF IsLinear(l.cls) THEN 1 ELSE l.stride,
     padding |-> IF IsLinear(l.cls) THEN 0 ELSE l.padding,
     dilation |-> IF IsLinear(l.cls) THEN 1 ELSE l.dilation,
     groups |-> IF IsLinear(l.cls) THEN 1 ELSE l.groups,
     output_padding |-> IF IsTransposed(l.cls) THEN l.output_padding ELSE 0]

OpIsTransposed(c) ==
    c.fn \in {"ConvTranspose1d", "ConvTranspose2d", "ConvTranspose3d"}

\* kernel dimensions of the weight the operation receives
OpKernel(c) == SubSeq(c.weight.shape, 3, Len(c.weight.shape))

OpOutChannels(c) ==
    IF OpIsTransposed(c) THEN c.weight.shape[2] * c.groups
    ELSE c.weight.shape[1]

OpInChannels(c) ==
    IF OpIsTransposed(c) THEN c.weight.shape[1]
    ELSE c.weight.shape[2] * c.groups

\* the substrate's shape checks: rank and channel count of the input, channel
\* counts divisible by groups, one bias element per output channel
OpAccepts(c) ==
    /\ Len(c.input.shape) = Len(c.weight.shape)
    /\ c.input.shape[2] = OpInChannels(c)
    /\ c.weight.shape[1] % c.groups = 0
    /\ c.weight.shape[2] > 0
    /\ c.bias.none \/ c.bias.shape = <<OpOutChannels(c)>>

\* output of a convolution (or affine map) whose input has the spatial
\* extent of the kernel, with padding 0, and dilation 1 unless the kernel has
\* extent 1 (which no dilation widens): one output position per (example,
\* output channel), whatever the stride
ConvOut(c) ==
    LET B    == c.input.shape[1]
        Cin  == c.input.shape[2]
        Cout == c.weight.shape[1]
        cin  == c.weight.shape[2]
        cout == Cout \div c.groups
        K    == Numel(OpKernel(c))
        at(j) ==
            LET b  == j \div Cout
                o  == j % Cout
                gi == o \div cout
            IN  (IF c.bias.none THEN 0 ELSE c.bias.v[o + 1])
                + SumSeq([n \in 1..(cin * K) |->
                     LET i == (n - 1) \div K
                         k == (n - 1) % K
                     IN  FMul(c.input.v[(b * Cin + gi * cin + i) * K + k + 1],
                              c.weight.v[(o * cin + i) * K + k + 1])])
    IN  Tensor(<<B, Cout>> \o [d \in 1..Len(OpKernel(c)) |-> 1],
               [j \in 1..(B * Cout) |-> at(j - 1)])

\* output of a transposed convolution whose input has spatial extent 1 (so
\* that the stride moves nothing), with padding 0, output_padding 0, and
\* dilation 1 unless the kernel has extent 1: the output has the extent of
\* the kernel
ConvTransposeOut(c) ==
    LET B    == c.input.shape[1]
        Cin  == c.weight.shape[1]
        cout == c.weight.shape[2]
        Cout == cout * c.groups
        cin  == Cin \div c.groups
        K    == Numel(OpKernel(c))
        at(j) ==
            LET b  == j \div (Cout * K)
                o  == (j \div K) % Cout
                k  == j % K
                gi == o \div cout
                oo == o % cout
            IN  (IF c.bias.none THEN 0 ELSE c.bias.v[o + 1])
                + SumSeq([n \in 1..cin |->
                     FMul(c.input.v[b * Cin + gi * cin + (n - 1) + 1],
                          c.weight.v[((gi * cin + (n - 1)) * cout + oo) * K
                                     + k + 1])])
    IN  Tensor(<<B, Cout>> \o OpKernel(c),
               [j \in 1..(B * Cout * K) |-> at(j - 1)])

\* the deterministic operation: its output, or the substrate's error
ApplyOp(c) ==
    IF ~OpAccepts(c) THEN Raise("RuntimeError")
    ELSE IF OpIsTransposed(c) THEN Ok(ConvTransposeOut(c))
    ELSE Ok(ConvOut(c))

\* torch.sign of one element
Sign(u) == IF u > 0 THEN 1000 ELSE IF u < 0 THEN -1000 ELSE 0

\* t.clone().uniform_(-1, 1).sign() with the uniform draw u (a pattern)
SignTensor(t, u) ==
    Tensor(t.shape, [i \in 1..Numel(t.shape) |-> Sign(u[((i - 1) % Len(u)) + 1])])

\* variant of QuantStub that rounds to one decimal
QuantStub_Rounding(t) ==
    Tensor(t.shape, [i \in 1..Len(t.v) |-> (t.v[i] \div 100) * 100])

\* a QuantStub applied to a tensor: the stub hands its argument back
QuantStub(t) == t

(* ----------------------------------------------------------------- forward *)
\* variant of ForcedReturnKl that lets the caller's request stand
ForcedReturnKl_Unforced(flag, return_kl) == return_kl

\* "if self.dnn_to_bnn_flag: return_kl = False"
ForcedReturnKl(flag, return_kl) == IF flag THEN FALSE ELSE return_kl

\* variant of normal_eps that leaves the buffer as the last call left it
normal_eps_Kept(l, buffer, z) == l

\* variant of normal_eps that draws into the mean of the weight
normal_eps_IntoMu(l, buffer, z) ==
    [l EXCEPT !.mu_weight = PatTensor(l.mu_weight.shape, z)]

\* self.eps_<group>.data.normal_(): the buffer is overwritten in place with
\* the standard-normal draw z (a pattern)
normal_eps(l, buffer, z) ==
    [l EXCEPT ![buffer] = PatTensor(l[buffer].shape, z)]

RetPair(out, kl) == [kind |-> "pair", out |-> out, kl |-> kl, exc |-> ""]

RetOut(out) == [kind |-> "out", out |-> out, kl |-> 0, exc |-> ""]

\* variant of RetRaise in which the layer replaces the error by its own
RetRaise_Translated(exc) ==
    [kind |-> "raise", out |-> None, kl |-> 0, exc |-> "ValueError"]

RetRaise(exc) == [kind |-> "raise", out |-> None, kl |-> 0, exc |-> exc]

\* what one forward call leaves: the layer, what the caller receives, the
\* invocations of the deterministic operation, the two sign tensors
Result(l, ret, ops, sign_input, sign_output) ==
    [layer |-> l, ret |-> ret, ops |-> ops,
     sign_input |-> sign_input, sign_output |-> sign_output]

\* the tap of an observer on a value, when prepare() was called
Tap(l, t) == IF l.quant_prepare THEN QuantStub(t) ELSE t

\* variant of ReparameterizationKl that leaves the bias group out
ReparameterizationKl_WeightOnly(l, kl_weight, kl_bias) == kl_weight.v

\* Reparameterization: "kl = kl_weight + kl_bias" if the layer has a bias,
\* else "kl = kl_weight"
ReparameterizationKl(l, kl_weight, kl_bias) ==
    IF HasBias(l) THEN KlAdd(kl_weight.v, kl_bias.v) ELSE kl_weight.v

\* variant of SampledBias that hands the mean of the bias to the operation
SampledBias_Mean(l, sigma_bias, eps_bias) == l.mu_bias

\* Reparameterization: "bias = self.mu_bias + (sigma_bias * eps_bias)"
SampledBias(l, sigma_bias, eps_bias) == TAdd(l.mu_bias, TMul(sigma_bias, eps_bias))

\* forward of the seven *Reparameterization classes; z.w and z.b are the
\* standard-normal draws
forward_Reparameterization(l, flag, x, return_kl_arg, z) ==
    LET return_kl    == ForcedReturnKl(flag, return_kl_arg)
        sigma_weight == Sigma(l.rho_weight)
        l1           == normal_eps(l, "eps_weight", z.w)
        eps_weight   == l1.eps_weight
        tmp_result   == TMul(sigma_weight, eps_weight)
        weight       == TAdd(l.mu_weight, tmp_result)
        kl_weight    == kl_div(l.mu_weight, sigma_weight, l.prior_weight_mu,
                               l.prior_weight_sigma)
        sigma_bias   == Sigma(l.rho_bias)
        l2           == IF HasBias(l) THEN normal_eps(l1, "eps_bias", z.b)
                        ELSE l1
        bias         == IF HasBias(l)
                        THEN SampledBias(l, sigma_bias, l2.eps_bias)
                        ELSE None
        kl_bias      == kl_div(l.mu_bias, sigma_bias, l.prior_bias_mu,
                               l.prior_bias_sigma)
        c            == OpCall(l, x, weight, bias)
        out          == ApplyOp(c)
    IN  IF return_kl /\ kl_weight.kind = "raise"
        THEN Result(l1, RetRaise(kl_weight.exc), <<>>, None, None)
        ELSE IF return_kl /\ HasBias(l) /\ kl_bias.kind = "raise"
        THEN Result(l2, RetRaise(kl_bias.exc), <<>>, None, None)
        ELSE IF out.kind = "raise"
        THEN Result(l2, RetRaise(out.exc), <<c>>, None, None)
        ELSE IF return_kl
        THEN Result(l2,
                    RetPair(Tap(l, out.v),
                            ReparameterizationKl(l, kl_weight, kl_bias)),
                    <<c>>, None, None)
        ELSE Result(l2, RetOut(Tap(l, out.v)), <<c>>, None, None)

\* variant of PerturbedBias that hands the sampled bias to the perturbed pass
PerturbedBias_WithMean(l, sigma_bias, eps_bias) ==
    TAdd(l.mu_bias, TMul(sigma_bias, eps_bias))

\* variant of PerturbedBias that hands the perturbed pass no bias
PerturbedBias_None(l, sigma_bias, eps_bias) == None

\* Flipout: the bias handed to the perturbed pass, "bias = (sigma_bias *
\* eps_bias)"
PerturbedBias(l, sigma_bias, eps_bias) == TMul(sigma_bias, eps_bias)

\* Flipout: every class but ConvTranspose3dFlipout adds the bias-group KL
\* under "if return_kl:"; ConvTranspose3dFlipout adds it unconditionally
BiasKlGuarded(cls) == ~(cls.op = "ConvTranspose3d" /\ cls.est = "Flipout")

\* Flipout: LinearFlipout draws eps and computes the KL before the mean
\* path; the conv classes apply the mean path first
DrawsBeforeMeanPath(cls) == IsLinear(cls)

\* Flipout: LinearFlipout and Conv2dFlipout return "out"; the other classes
\* return "outputs + perturbed_outputs", added again after the taps
ReturnsOut(cls) == cls.op \in {"Linear", "Conv2d"}

\* Flipout: "perturbed_outputs = perturbed_outputs_tmp * sign_output" and
\* "out = outputs + perturbed_outputs"
FlipoutOut(outputs, perturbed_outputs_tmp, sign_output) ==
    TAdd(outputs, TMul(perturbed_outputs_tmp, sign_output))

\* forward of the seven *Flipout classes; z.w and z.b are the standard-normal
\* draws, z.si and z.so the uniform draws of the two sign tensors
forward_Flipout(l, flag, x, return_kl_arg, z) ==
    LET return_kl    == ForcedReturnKl(flag, return_kl_arg)
        mean         == OpCall(l, x, l.mu_weight, l.mu_bias)
        outputs      == ApplyOp(mean)
        sign_input   == SignTensor(x, z.si)
        sign_output  == SignTensor(outputs.v, z.so)
        sigma_weight == Sigma(l.rho_weight)
        l1           == normal_eps(l, "eps_weight", z.w)
        eps_weight   == l1.eps_weight
        delta_weight == TMul(sigma_weight, eps_weight)
        kl_weight    == kl_div(l.mu_weight, sigma_weight, l.prior_weight_mu,
                               l.prior_weight_sigma)
        sigma_bias   == Sigma(l.rho_bias)
        l2           == IF HasBias(l) THEN normal_eps(l1, "eps_bias", z.b)
                        ELSE l1
        bias         == IF HasBias(l)
                        THEN PerturbedBias(l, sigma_bias, l2.eps_bias)
                        ELSE None
        kl_bias      == kl_div(l.mu_bias, sigma_bias, l.prior_bias_mu,
                               l.prior_bias_sigma)
        \* "kl = kl + ..." reads a local that was never bound
        unbound      == HasBias(l) /\ ~return_kl /\ ~BiasKlGuarded(l.cls)
        x_tmp        == TMul(x, sign_input)
        pert         == OpCall(l, x_tmp, delta_weight, bias)
        perturbed_outputs_tmp == ApplyOp(pert)
        perturbed_outputs == TMul(perturbed_outputs_tmp.v, sign_output)
        out          == FlipoutOut(outputs.v, perturbed_outputs_tmp.v,
                                   sign_output)
        returned     == IF ReturnsOut(l.cls) THEN Tap(l, out)
                        ELSE TAdd(Tap(l, outputs.v), Tap(l, perturbed_outputs))
        kl           == IF HasBias(l) THEN KlAdd(kl_weight.v, kl_bias.v)
                        ELSE kl_weight.v
        klRaises     == return_kl /\ kl_weight.kind = "raise"
        klBiasRaises == return_kl /\ HasBias(l) /\ kl_bias.kind = "raise"
        done         == IF return_kl
                        THEN Result(l2, RetPair(returned, kl), <<mean, pert>>,
                                    sign_input, sign_output)
                        ELSE Result(l2, RetOut(returned), <<mean, pert>>,
                                    sign_input, sign_output)
    IN  IF DrawsBeforeMeanPath(l.cls)
        THEN IF klRaises
             THEN Result(l1, RetRaise(kl_weight.exc), <<>>, None, None)
             ELSE IF unbound
             THEN Result(l2, RetRaise("UnboundLocalError"), <<>>, None, None)
             ELSE IF klBiasRaises
             THEN Result(l2, RetRaise(kl_bias.exc), <<>>, None, None)
             ELSE IF outputs.kind = "raise"
             THEN Result(l2, RetRaise(outputs.exc), <<mean>>, None, None)
             ELSE IF perturbed_outputs_tmp.kind = "raise"
             THEN Result(l2, RetRaise(perturbed_outputs_tmp.exc),
                         <<mean, pert>>, sign_input, sign_output)
             ELSE done
        ELSE IF outputs.kind = "raise"
             THEN Result(l, RetRaise(outputs.exc), <<mean>>, None, None)
             ELSE IF klRaises
             THEN Result(l1, RetRaise(kl_weight.exc), <<mean>>,
                         sign_input, sign_output)
             ELSE IF unbound
             THEN Result(l2, RetRaise("UnboundLocalError"), <<mean>>,
                         sign_input, sign_output)
             ELSE IF klBiasRaises
             THEN Result(l2, RetRaise(kl_bias.exc), <<mean>>,
                         sign_input, sign_output)
             ELSE IF perturbed_outputs_tmp.kind = "raise"
             THEN Result(l2, RetRaise(perturbed_outputs_tmp.exc),
                         <<mean, pert>>, sign_input, sign_output)
             ELSE done

\* forward of the layer's class
forward(l, flag, x, return_kl, z) ==
    IF l.cls.est = "Flipout" THEN forward_Flipout(l, flag, x, return_kl, z)
    ELSE forward_Reparameterization(l, flag, x, return_kl, z)

\* variant of prepare that clears the noise buffer of the weight
prepare_Clearing(l) ==
    [l EXCEPT !.quant_prepare = TRUE,
              !.eps_weight = Fill(l.eps_weight.shape, 0)]

\* prepare(): builds the observer stubs and sets quant_prepare
prepare(l) == [l EXCEPT !.quant_prepare = TRUE]

(* ------------------------------------------------------------------ inputs *)
\* standard-normal draws of init_parameters(): one pattern per normal_ call
LayerInitDraws ==
    {[mu_w |-> <<0, 1000>>, rho_w |-> <<0, -1000>>,
      mu_b |-> <<1000, 0>>, rho_b |-> <<1000, -1000>>]}

InitDraws ==
    LayerInitDraws
    \cup {[mu_w |-> <<-1000, 1000>>, rho_w |-> <<1000, 0>>,
           mu_b |-> <<0, -1000>>, rho_b |-> <<0, 0>>]}

\* content of uninitialised memory
LayerGarbage == {7000}

Garbage == LayerGarbage \cup {0}

\* prior and posterior initialisers: a setting in which the four values
\* differ, and the defaults of the constructors
LayerHypers ==
    {[prior_mean |-> 100, prior_variance |-> 2000,
      posterior_mu_init |-> 200, posterior_rho_init |-> -100]}

Hypers ==
    LayerHypers
    \cup {[prior_mean |-> 0, prior_variance |-> 1000,
           posterior_mu_init |-> 0, posterior_rho_init |-> -3000]}

\* the keyword arguments of a constructor call; h holds the four initialisers
Args(in_channels, out_channels, kernel_size, stride, padding, dilation, groups, output_padding, h, bias) ==
    [in_channels |-> in_channels, out_channels |-> out_channels,
     kernel_size |-> kernel_size, stride |-> stride, padding |-> padding,
     dilation |-> dilation, groups |-> groups,
     output_padding |-> output_padding,
     prior_mean |-> h.prior_mean, prior_variance |-> h.prior_variance,
     posterior_mu_init |-> h.posterior_mu_init,
     posterior_rho_init |-> h.posterior_rho_init, bias |-> bias]

\* constructor arguments of the layers whose calls are explored: one or
\* MaxChannels input channels, MaxChannels output channels, every groups
\* value that divides both, kernel size 1, stride 2, padding 0, dilation 3,
\* output_padding 0, the values of stride and dilation being ones that
\* differ from each other, from the defaults and from groups
LayerArgs(cls) ==
    {a \in {Args(i, o, KInt(k), s, 0, 3, g, 0, h, b) :
                i \in {1, MaxChannels}, o \in {MaxChannels},
                k \in {1}, s \in {2},
                g \in {gg \in 1..MaxGroups : ~IsLinear(cls) \/ gg = 1},
                h \in LayerHypers, b \in BOOLEAN} :
        a.in_channels % a.groups = 0 /\ a.out_channels % a.groups = 0}

\* kernel_size arguments offered to the constructors: ints and tuples of
\* one to four entries
KernelSizes ==
    {KInt(k) : k \in 1..MaxKernel}
    \cup {KTuple([i \in 1..n |-> k]) : n \in 1..4, k \in 1..MaxKernel}

\* constructor arguments offered to the constructors
CtorArgs(cls) ==
    {Args(i, o, ks, s, 0, 1, g, 0, h, b) :
        i \in 1..(MaxChannels + 2), o \in 1..(MaxChannels + 2),
        ks \in IF IsLinear(cls) THEN {KInt(1)} ELSE KernelSizes,
        s \in 1..MaxStride,
        g \in {gg \in 1..(MaxGroups + 1) : ~IsLinear(cls) \/ gg = 1},
        h \in Hypers, b \in BOOLEAN}

\* shape of an input the layer's operation accepts, for a batch of b
InputShape(l, b) ==
    IF IsLinear(l.cls) THEN <<b, l.in_channels>>
    ELSE IF IsTransposed(l.cls)
         THEN <<b, l.in_channels>> \o [d \in 1..NDims(l.cls) |-> 1]
         ELSE <<b, l.in_channels>>
              \o SubSeq(l.mu_weight.shape, 3, Len(l.mu_weight.shape))

\* inputs of forward: one example and a batch of MaxBatch examples of
\* accepted shape, and one input with one channel (feature) too many
Inputs(l) ==
    {PatTensor(InputShape(l, b), <<1000, -2000, 3000>>) : b \in {1, MaxBatch}}
    \cup {PatTensor([InputShape(l, 1) EXCEPT ![2] = l.in_channels + 1],
                    <<1000, -2000, 3000>>)}

\* the random draws of one forward call: the standard-normal draws of the
\* weight and bias noise, the uniform(-1, 1) draws of the two sign tensors
\* (uniform_ draws from [-1, 1), so 0 is among its values)
Draws ==
    {[w |-> <<1000, -1000>>, b |-> <<-1000, 2000>>,
      si |-> <<500, -500>>, so |-> <<-250, 750>>],
     [w |-> <<-2000, 0>>, b |-> <<1000, -1000>>,
      si |-> <<-500, 0>>, so |-> <<0, -750>>]}

(* ----------------------------------------------------------- state machine *)
NoCtor == [called |-> FALSE]

NoCall == [op |-> "none"]

\* the record of a constructor call
CtorRecord(cls, a, r) ==
    [called |-> TRUE, cls |-> cls, args |-> a, ret |-> r.ret,
     allocated |-> r.allocated]

\* no layer has been constructed
InitCtor ==
    /\ layer = NoLayer
    /\ dnn_to_bnn_flag = FALSE
    /\ ctor = NoCtor
    /\ call = NoCall

\* __init__ of one of the fourteen classes
ConstructLayer ==
    /\ ~ctor.called
    /\ \E cls \in Classes : \E a \in CtorArgs(cls) :
       \E g \in Garbage : \E d \in InitDraws :
          LET r == Construct(cls, a, g, d)
          IN  /\ ctor' = CtorRecord(cls, a, r)
              /\ layer' = r.layer
    /\ UNCHANGED <<dnn_to_bnn_flag, call>>

NextCtor == ConstructLayer

SpecCtor == InitCtor /\ [][NextCtor]_vars

\* a layer has been constructed
Init ==
    /\ \E cls \in Classes : \E a \in LayerArgs(cls) :
       \E g \in LayerGarbage : \E d \in LayerInitDraws :
          LET r == Construct(cls, a, g, d)
          IN  /\ r.ret.kind = "ok"
              /\ ctor = CtorRecord(cls, a, r)
              /\ layer = r.layer
    /\ dnn_to_bnn_flag = FALSE
    /\ call = NoCall

\* layer.forward(x, return_kl)
Forward ==
    /\ layer.exists
    /\ \E x \in Inputs(layer) : \E return_kl \in BOOLEAN :
       \E z \in Draws :
          LET r == forward(layer, dnn_to_bnn_flag, x, return_kl, z)
          IN  /\ layer' = r.layer
              /\ call' = [op |-> "forward", x |-> x, return_kl |-> return_kl,
                          flag |-> dnn_to_bnn_flag,
                          quant_prepare |-> layer.quant_prepare, z |-> z,
                          ret |-> r.ret, ops |-> r.ops,
                          sign_input |-> r.sign_input,
                          sign_output |-> r.sign_output]
    /\ UNCHANGED <<dnn_to_bnn_flag, ctor>>

\* variant of KlLoss that draws the weight noise
KlLoss_Drawing ==
    /\ layer.exists
    /\ layer' = normal_eps(layer, "eps_weight", <<1000, -1000>>)
    /\ call' = [op |-> "kl_loss", ret |-> kl_loss(layer)]
    /\ UNCHANGED <<dnn_to_bnn_flag, ctor>>

\* layer.kl_loss()
KlLoss ==
    /\ layer.exists
    /\ call' = [op |-> "kl_loss", ret |-> kl_loss(layer)]
    /\ UNCHANGED <<layer, dnn_to_bnn_flag, ctor>>

\* layer.prepare()
Prepare ==
    /\ layer.exists
    /\ layer' = prepare(layer)
    /\ call' = NoCall
    /\ UNCHANGED <<dnn_to_bnn_flag, ctor>>

\* an optimizer step between two calls: the trainable parameters of each
\* group move (here mu by +0.1 and rho by -2.0), as long as rho stays on the
\* grid of SoftplusTable
step(t) ==
    IF t.none THEN t
    ELSE Tensor(t.shape, [i \in 1..Len(t.v) |-> t.v[i] - 2000])

OptimizerStep ==
    /\ layer.exists
    /\ \A i \in 1..Len(layer.rho_weight.v) : layer.rho_weight.v[i] - 2000 >= -3500
    /\ \A i \in 1..Len(layer.rho_bias.v) : layer.rho_bias.v[i] - 2000 >= -3500
    /\ layer' = [layer EXCEPT
                    !.mu_weight = TAdd(@, Fill(@.shape, 100)),
                    !.rho_weight = step(@),
                    !.rho_bias = step(@)]
    /\ call' = NoCall
    /\ UNCHANGED <<dnn_to_bnn_flag, ctor>>

\* the process-wide deterministic-mode flag is set or cleared
SetFlag ==
    /\ \E b \in BOOLEAN : dnn_to_bnn_flag' = b
    /\ call' = NoCall
    /\ UNCHANGED <<layer, ctor>>

\* an explicit layer.init_parameters() after construction
InitParameters ==
    /\ layer.exists
    /\ \E d \in LayerInitDraws :
          /\ layer' = init_parameters(layer, d)
          /\ call' = [op |-> "init_parameters", d |-> d]
    /\ UNCHANGED <<dnn_to_bnn_flag, ctor>>

Next ==
    Forward \/ KlLoss \/ Prepare \/ SetFlag \/ OptimizerStep \/ InitParameters

Spec == Init /\ [][Next]_vars

(* ------------------------------------------------ priors that are not valid *)
\* prior_variance arguments that are not positive
BadVariances == {0, -1000}

\* constructor arguments with such a prior_variance
BadPriorArgs(cls) ==
    {[a EXCEPT !.prior_variance = v] : a \in LayerArgs(cls), v \in BadVariances}

\* a constructor call with such arguments
ConstructBadPrior ==
    /\ ~ctor.called
    /\ \E cls \in Classes : \E a \in BadPriorArgs(cls) :
       \E g \in LayerGarbage : \E d \in LayerInitDraws :
          LET r == Construct(cls, a, g, d)
          IN  /\ ctor' = CtorRecord(cls, a, r)
              /\ layer' = r.layer
    /\ UNCHANGED <<dnn_to_bnn_flag, call>>

NextPrior == ConstructBadPrior \/ Forward \/ KlLoss

SpecPrior == InitCtor /\ [][NextPrior]_vars

(* ------------------------------------------------------- concurrent calls *)
\* two threads, each running one forward call on the same layer
Threads == {1, 2}

\* the standard-normal draws of the weight noise
NoiseDraws == {z.w : z \in Draws}

\* a layer has been constructed and both threads are about to evaluate
\* "sigma_weight * self.eps_weight.data.normal_()"
InitRace ==
    /\ \E cls \in Classes : \E a \in LayerArgs(cls) :
       \E g \in LayerGarbage : \E d \in LayerInitDraws :
          LET r == Construct(cls, a, g, d)
          IN  /\ r.ret.kind = "ok"
              /\ ctor = CtorRecord(cls, a, r)
              /\ layer = r.layer
    /\ dnn_to_bnn_flag = FALSE
    /\ call = [op |-> "concurrent",
               pc |-> [t \in Threads |-> "start"],
               z |-> [t \in Threads |-> <<>>],
               last |-> 0,
               src |-> [t \in Threads |-> 0],
               product |-> [t \in Threads |-> None]]

\* variant of DrawNoise in which a thread waits while another one is between
\* its draw and its product
DrawNoise_Serialised(t) ==
    /\ call.op = "concurrent"
    /\ call.pc[t] = "start"
    /\ \A u \in Threads : call.pc[u] # "drawn"
    /\ \E z \in NoiseDraws :
          /\ layer' = normal_eps(layer, "eps_weight", z)
          /\ call' = [call EXCEPT !.pc[t] = "drawn", !.z[t] = z, !.last = t]
    /\ UNCHANGED <<dnn_to_bnn_flag, ctor>>

\* thread t executes self.eps_weight.data.normal_(): the shared buffer is
\* overwritten in place; nothing in forward waits for another thread
DrawNoise(t) ==
    /\ call.op = "concurrent"
    /\ call.pc[t] = "start"
    /\ \E z \in NoiseDraws :
          /\ layer' = normal_eps(layer, "eps_weight", z)
          /\ call' = [call EXCEPT !.pc[t] = "drawn", !.z[t] = z, !.last = t]
    /\ UNCHANGED <<dnn_to_bnn_flag, ctor>>

\* thread t multiplies sigma_weight by what the shared buffer holds now
MultiplyNoise(t) ==
    /\ call.op = "concurrent"
    /\ call.pc[t] = "drawn"
    /\ call' = [call EXCEPT
                  !.pc[t] = "done",
                  !.src[t] = call.last,
                  !.product[t] = TMul(Sigma(layer.rho_weight),
                                      layer.eps_weight)]
    /\ UNCHANGED <<layer, dnn_to_bnn_flag, ctor>>

NextRace == \E t \in Threads : DrawNoise(t) \/ MultiplyNoise(t)

SpecRace == InitRace /\ [][NextRace]_vars

(* ---------------------------------------------------------- two instances *)
\* the tensor attributes of a layer, in the order __init__ creates them
TensorNames ==
    <<"mu_weight", "rho_weight", "eps_weight", "prior_weight_mu",
      "prior_weight_sigma", "mu_bias", "rho_bias", "eps_bias",
      "prior_bias_mu", "prior_bias_sigma">>

IsTensorName(f) == \E j \in 1..Len(TensorNames) : TensorNames[j] = f

Instances == {1, 2}

\* variant of NewTensor in which the instances of a class share their tensors
NewTensor_Shared(k, j) == j

\* the identity of the tensor that the j-th torch.Tensor(...) call of the
\* k-th constructor call returns: a new tensor every time
NewTensor(k, j) == (k - 1) * Len(TensorNames) + j

\* the k-th instance as __init__ leaves it: every tensor attribute refers to
\* the tensor it was given (0 for None)
Object(k, l) ==
    [f \in DOMAIN l |->
        IF IsTensorName(f)
        THEN IF l[f].none THEN 0
             ELSE NewTensor(k, CHOOSE j \in 1..Len(TensorNames) :
                                   TensorNames[j] = f)
        ELSE l[f]]

\* the layer an instance denotes: its attributes, with the tensors it refers to
Load(heap, o) ==
    [f \in DOMAIN o |->
        IF IsTensorName(f) THEN IF o[f] = 0 THEN None ELSE heap[o[f]]
        ELSE o[f]]

\* the tensors after a call on the instance o that left the layer l: the call
\* wrote through the references of o
StoreTensors(heap, o, l) ==
    [id \in DOMAIN heap |->
        IF \E j \in 1..Len(TensorNames) : o[TensorNames[j]] = id
        THEN l[TensorNames[CHOOSE j \in 1..Len(TensorNames) :
                               o[TensorNames[j]] = id]]
        ELSE heap[id]]

\* the attributes of o after such a call; the references stay
StoreAttributes(o, l) ==
    [f \in DOMAIN o |-> IF IsTensorName(f) THEN o[f] ELSE l[f]]

\* constructor arguments of the two instances: layers with bias
OwnArgs(cls) ==
    {a \in LayerArgs(cls) : a.in_channels = 1 /\ a.groups = 1 /\ a.bias}

\* the random draws of a forward call on an instance
OwnDraws == {z \in Draws : z.w[1] = -2000}

\* two instances of one class have been constructed with the same arguments
InitOwn ==
    /\ \E cls \in Classes : \E a \in OwnArgs(cls) :
       \E g \in LayerGarbage : \E d \in LayerInitDraws :
          LET r == Construct(cls, a, g, d)
              objs == [k \in Instances |-> Object(k, r.layer)]
              ids == {objs[k][TensorNames[j]] :
                         k \in Instances, j \in 1..Len(TensorNames)} \ {0}
          IN  /\ r.ret.kind = "ok"
              /\ ctor = CtorRecord(cls, a, r)
              /\ layer = [exists |-> TRUE,
                          objs |-> objs,
                          heap |-> [id \in ids |->
                                      LET k == CHOOSE kk \in Instances :
                                                 \E j \in 1..Len(TensorNames) :
                                                    objs[kk][TensorNames[j]] = id
                                          j == CHOOSE jj \in 1..Len(TensorNames) :
                                                 objs[k][TensorNames[jj]] = id
                                      IN  r.layer[TensorNames[j]]]]
    /\ dnn_to_bnn_flag = FALSE
    /\ call = NoCall

\* the state after a call on instance k that left its layer as l
After(k, l) ==
    [layer EXCEPT !.heap = StoreTensors(layer.heap, layer.objs[k], l),
                  !.objs[k] = StoreAttributes(layer.objs[k], l)]

\* instance k: forward(x, return_kl)
ForwardOn(k) ==
    /\ \E return_kl \in BOOLEAN : \E z \in OwnDraws :
          LET l == Load(layer.heap, layer.objs[k])
              x == PatTensor(InputShape(l, 1), <<1000, -2000, 3000>>)
              r == forward(l, dnn_to_bnn_flag, x, return_kl, z)
          IN  /\ layer' = After(k, r.layer)
              /\ call' = [op |-> "forward", instance |-> k,
                          raised |-> r.ret.kind = "raise"]
    /\ UNCHANGED <<dnn_to_bnn_flag, ctor>>

\* instance k: kl_loss()
KlLossOn(k) ==
    /\ call' = [op |-> "kl_loss", instance |-> k,
                raised |-> kl_loss(Load(layer.heap, layer.objs[k])).kind
                             = "raise"]
    /\ UNCHANGED <<layer, dnn_to_bnn_flag, ctor>>

\* instance k: prepare()
PrepareOn(k) ==
    /\ layer' = After(k, prepare(Load(layer.heap, layer.objs[k])))
    /\ call' = [op |-> "prepare", instance |-> k]
    /\ UNCHANGED <<dnn_to_bnn_flag, ctor>>

\* instance k: init_parameters()
InitParametersOn(k) ==
    /\ \E d \in InitDraws :
          layer' = After(k, init_parameters(Load(layer.heap, layer.objs[k]), d))
    /\ call' = [op |-> "init_parameters", instance |-> k]
    /\ UNCHANGED <<dnn_to_bnn_flag, ctor>>

NextOwn ==
    \E k \in Instances :
        ForwardOn(k) \/ KlLossOn(k) \/ PrepareOn(k) \/ InitParametersOn(k)

SpecOwn == InitOwn /\ [][NextOwn]_vars

(* --------------------------------------------------------------- DMGPcifar *)
\* the five Bayesian layers of DMGPcifar, in the order forward calls them
BayesianLayers == <<"conv1", "conv2", "fc0", "fc1", "fc2">>

\* variant of Accumulate that keeps the last KL only
Accumulate_Last(kl_sum, kl) == kl

\* "kl_sum += kl"
Accumulate(kl_sum, kl) == kl_sum + kl

\* DMGPcifar.forward(x) on a batch of n examples; kls[i] is the KL of the
\* i-th Bayesian layer. Every layer is called with the default return_kl and
\* its result is unpacked with "x, kl = ...": a layer that returns the output
\* alone hands the unpacking a tensor, which unpacks along its first
\* dimension (the n examples after conv1, the channels after conv2) and raises
\* ValueError unless that dimension is 2. relu, max_pool2d, dropout, flatten
\* and the AMK stages map x to x and touch neither kl nor kl_sum. Of the
\* output only the batch dimension is kept.
DMGPcifar_forward(flag, n, kls) ==
    LET pair == ForcedReturnKl(flag, TRUE)
        kl_sum0 == 0
        kl_sum1 == Accumulate(kl_sum0, kls[1])
        kl_sum2 == Accumulate(kl_sum1, kls[2])
        kl_sum3 == Accumulate(kl_sum2, kls[3])
        kl_sum4 == Accumulate(kl_sum3, kls[4])
        kl_sum5 == Accumulate(kl_sum4, kls[5])
        output  == [none |-> FALSE, shape |-> <<n>>, v |-> <<>>]
    IN  IF pair
        THEN [ret |-> RetPair(output, kl_sum5), stage |-> "return"]
        ELSE IF n # 2
        THEN [ret |-> RetRaise("ValueError"), stage |-> BayesianLayers[1]]
        ELSE [ret |-> RetRaise("ValueError"), stage |-> BayesianLayers[2]]

\* KL values of a layer
KlValues == {0, 1500, 27000}

\* no network call has been made
InitNet ==
    /\ layer = NoLayer
    /\ dnn_to_bnn_flag = FALSE
    /\ ctor = NoCtor
    /\ call = NoCall

\* model(x) on a DMGPcifar network
NetForward ==
    /\ \E n \in 1..MaxBatch : \E kls \in [1..Len(BayesianLayers) -> KlValues] :
          LET r == DMGPcifar_forward(dnn_to_bnn_flag, n, kls)
          IN  call' = [op |-> "net_forward", n |-> n, kls |-> kls,
                       flag |-> dnn_to_bnn_flag, ret |-> r.ret,
                       stage |-> r.stage]
    /\ UNCHANGED <<layer, dnn_to_bnn_flag, ctor>>

NextNet == NetForward \/ SetFlag

SpecNet == InitNet /\ [][NextNet]_vars

(* --------------------------------------------------------- pure functions *)
\* torch.log1p(torch.exp(rho)) in float32, the dtype of every parameter, over
\* the whole range of rho: exp(rho) is 0 below about -103.98 and inf above
\* about 88.72, so the result is exactly 0 or inf there. Between the two it
\* is positive: below a thousandth for rho <= -20, rho itself for rho >= 20,
\* and the tabulated value on the grid.
log1p_exp(rho) ==
    CASE rho <= -104000 -> [cls |-> "zero", v |-> 0]
      [] rho >= 89000 -> [cls |-> "inf", v |-> 0]
      [] rho > -104000 /\ rho <= -20000 -> [cls |-> "positive", v |-> 0]
      [] rho >= 20000 /\ rho < 89000 -> [cls |-> "positive", v |-> rho]
      [] rho >= -3500 /\ rho <= 500 -> [cls |-> "positive", v |-> softplus(rho)]

\* values of rho: on the grid, far from it, and beyond the float32 range of exp
RhoValues == {-1000000, -104000, -50000, -3000, 0, 500, 50000, 89000, 1000000}

\* means and standard deviations of a parameter group, tiled over a tensor
MuPatterns == {<<0>>, <<100, -500>>, <<200, 300>>}
SigmaPatterns == {<<1000>>, <<474, 974>>, <<30, 500>>}

\* the tensors handed to kl_div: four of one shape
KlShape == <<MaxChannels, MaxKernel>>

\* the arguments are drawn, nothing has been applied
InitNum ==
    /\ layer = NoLayer
    /\ dnn_to_bnn_flag = FALSE
    /\ ctor = NoCtor
    /\ \E rho \in RhoValues : \E mq \in MuPatterns, mp \in MuPatterns :
       \E sq \in SigmaPatterns, sp \in SigmaPatterns :
          call = [op |-> "args", rho |-> rho,
                  mu_q |-> PatTensor(KlShape, mq),
                  sigma_q |-> PatTensor(KlShape, sq),
                  mu_p |-> PatTensor(KlShape, mp),
                  sigma_p |-> PatTensor(KlShape, sp)]

\* sigma = torch.log1p(torch.exp(rho)) on one element
ApplyLog1pExp ==
    /\ call.op = "args"
    /\ call' = [op |-> "log1p_exp", rho |-> call.rho,
                ret |-> log1p_exp(call.rho)]
    /\ UNCHANGED <<layer, dnn_to_bnn_flag, ctor>>

\* self.kl_div(mu_q, sigma_q, mu_p, sigma_p)
ApplyKlDiv ==
    /\ call.op = "args"
    /\ call' = [op |-> "kl_div", mu_q |-> call.mu_q, sigma_q |-> call.sigma_q,
                mu_p |-> call.mu_p, sigma_p |-> call.sigma_p,
                ret |-> kl_div(call.mu_q, call.sigma_q, call.mu_p, call.sigma_p)]
    /\ UNCHANGED <<layer, dnn_to_bnn_flag, ctor>>

NextNum == ApplyLog1pExp \/ ApplyKlDiv

SpecNum == InitNum /\ [][NextNum]_vars

(* ------------------------------------------------------------------ claims *)
\* the input x has the shape the layer's deterministic operation accepts
AcceptedInput(l, x) == OpAccepts(OpCall(l, x, l.mu_weight, l.mu_bias))

\* the last call was forward, on a layer of the estimator est
ForwardOf(est) == call.op = "forward" /\ layer.cls.est = est

\* C1: forward of a Reparameterization layer, on an input its operation
\* accepts, returns the pair (output, kl) exactly when return_kl is true and
\* dnn_to_bnn_flag is not set; in every other case it returns the output
\* alone and raises nothing.
C1_ReparameterizationReturn ==
    (ForwardOf("Reparameterization") /\ AcceptedInput(layer, call.x))
    => call.ret.kind = (IF call.return_kl /\ ~call.flag THEN "pair" ELSE "out")

C1_Witness ==
    /\ ForwardOf("Reparameterization")
    /\ AcceptedInput(layer, call.x)
    /\ call.return_kl
    /\ call.flag
    /\ call.ret.kind = "out"

\* C2: forward of a Flipout layer, with or without bias, on an input its
\* operation accepts, with return_kl false or dnn_to_bnn_flag set, completes
\* without error and returns the output alone.
C2_FlipoutReturnsOutput ==
    (/\ ForwardOf("Flipout")
     /\ AcceptedInput(layer, call.x)
     /\ (~call.return_kl \/ call.flag))
    => call.ret.kind = "out"

\* the constructor was called for a convolutional class of the estimator est
\* with a channel count that groups does not divide
NotDivisible(est) ==
    /\ ctor.called
    /\ ~IsLinear(ctor.cls)
    /\ ctor.cls.est = est
    /\ \/ ctor.args.in_channels % ctor.args.groups # 0
       \/ ctor.args.out_channels % ctor.args.groups # 0

\* C3: constructing a convolutional Reparameterization layer whose
\* in_channels or out_channels is not divisible by groups raises the
\* configuration error (ValueError) before any tensor is allocated, and
\* leaves no layer.
C3_GroupsRejected ==
    NotDivisible("Reparameterization")
    => /\ ctor.ret.kind = "raise"
       /\ ctor.ret.exc = "ValueError"
       /\ ctor.allocated = {}
       /\ layer = NoLayer

C3_Witness ==
    /\ NotDivisible("Reparameterization")
    /\ ctor.cls.op = "Conv2d"
    /\ ctor.args.in_channels = 4
    /\ ctor.args.groups = 3
    /\ ctor.ret.kind = "raise"

\* C4: constructing a convolutional Flipout layer whose in_channels or
\* out_channels is not divisible by groups is rejected with an error, so
\* that no such layer exists.
C4_FlipoutGroupsRejected ==
    NotDivisible("Flipout") => (ctor.ret.kind = "raise" /\ layer = NoLayer)

\* C5: for every convolutional class of N spatial dimensions, an int
\* kernel_size gives N equal kernel dimensions of the weight, a kernel_size
\* tuple of length N gives the kernel dimensions as written, and a tuple of
\* any other length makes the constructor raise and leave no layer.
C5_KernelSize ==
    (ctor.called /\ ~IsLinear(ctor.cls))
    => LET n  == NDims(ctor.cls)
           ks == ctor.args.kernel_size
           divisible == /\ ctor.args.in_channels % ctor.args.groups = 0
                        /\ ctor.args.out_channels % ctor.args.groups = 0
       IN  IF ks.tuple /\ Len(ks.v) # n
           THEN ctor.ret.kind = "raise" /\ layer = NoLayer
           ELSE divisible
                => /\ ctor.ret.kind = "ok"
                   /\ SubSeq(layer.mu_weight.shape, 3, n + 2)
                        = [d \in 1..n |-> ks.v[IF ks.tuple THEN d ELSE 1]]

\* KL of the weight group and of the bias group of the layer l
WeightKl(l) ==
    kl_div(l.mu_weight, Sigma(l.rho_weight), l.prior_weight_mu,
           l.prior_weight_sigma)

BiasKl(l) ==
    kl_div(l.mu_bias, Sigma(l.rho_bias), l.prior_bias_mu, l.prior_bias_sigma)

\* C6: the KL that forward returns is the value kl_loss() returns on the same
\* parameters and priors, and both are the KL of the weight group plus, for a
\* layer with bias, the KL of the bias group.
C6_ForwardKlIsKlLoss ==
    (call.op = "forward" /\ call.ret.kind = "pair")
    => /\ kl_loss(layer) = Ok(call.ret.kl)
       /\ call.ret.kl = WeightKl(layer).v
                        + (IF ctor.args.bias THEN BiasKl(layer).v ELSE 0)

C6_Witness ==
    /\ ForwardOf("Flipout")
    /\ layer.cls.op = "Conv2d"
    /\ ctor.args.bias
    /\ call.ret.kind = "pair"
    /\ kl_loss(layer) = Ok(call.ret.kl)
    /\ BiasKl(layer).v # 0
    /\ WeightKl(layer).v # 0

\* the trainable parameters and the prior buffers
Parameters(l) ==
    <<l.mu_weight, l.rho_weight, l.mu_bias, l.rho_bias, l.prior_weight_mu,
      l.prior_weight_sigma, l.prior_bias_mu, l.prior_bias_sigma>>

\* C7: a forward call leaves mu and rho of weight and bias and the prior
\* buffers as they were, and a forward call that follows a forward call
\* returns the same KL.
C7_ForwardKeepsParameters ==
    [][call'.op = "forward"
       => /\ Parameters(layer') = Parameters(layer)
          /\ (/\ call.op = "forward"
              /\ call.ret.kind = "pair"
              /\ call'.ret.kind = "pair")
             => call'.ret.kl = call.ret.kl]_vars

C7_Witness ==
    /\ call.op = "forward"
    /\ call.ret.kind = "pair"
    /\ ctor.args.bias
    /\ layer.eps_weight.v[1] = -2000
    /\ layer.eps_bias.v[1] = 1000
    /\ layer.mu_weight.v[1] = 200
    /\ layer.rho_weight.v[1] = -100

\* C8: a layer constructed with bias=False holds None for its five bias
\* tensors at all times (so no bias noise is drawn), kl_loss() and the KL of
\* forward are the KL of the weight group, and every invocation of the
\* deterministic operation receives no bias.
C8_NoBias ==
    (layer.exists /\ ~ctor.args.bias)
    => /\ layer.mu_bias = None
       /\ layer.rho_bias = None
       /\ layer.eps_bias = None
       /\ layer.prior_bias_mu = None
       /\ layer.prior_bias_sigma = None
       /\ kl_loss(layer) = WeightKl(layer)
       /\ call.op = "kl_loss" => call.ret = WeightKl(layer)
       /\ call.op = "forward"
          => /\ call.ret.kind = "pair" => call.ret.kl = WeightKl(layer).v
             /\ \A n \in 1..Len(call.ops) : call.ops[n].bias = None

C8_Witness ==
    /\ ~ctor.args.bias
    /\ ForwardOf("Flipout")
    /\ call.ret.kind = "pair"
    /\ Len(call.ops) = 2
    /\ call.ret.kl = WeightKl(layer).v
    /\ call.ret.kl # 0

\* C9: the output of forward of a Flipout layer is
\* op(x, mu_weight, mu_bias)
\*   + sign_output * op(x * sign_input, sigma_weight * eps_weight, delta_bias)
\* with delta_bias = sigma_bias * eps_bias for a layer with bias and no bias
\* otherwise, of the shape of op(x, mu_weight, mu_bias).
C9_FlipoutOutput ==
    (ForwardOf("Flipout") /\ call.ret.kind \in {"pair", "out"})
    => LET mean_path == ApplyOp(OpCall(layer, call.x, layer.mu_weight,
                                       layer.mu_bias)).v
           delta_weight == TMul(Sigma(layer.rho_weight), layer.eps_weight)
           delta_bias == IF ctor.args.bias
                         THEN TMul(Sigma(layer.rho_bias), layer.eps_bias)
                         ELSE None
           perturbed == ApplyOp(OpCall(layer, TMul(call.x, call.sign_input),
                                       delta_weight, delta_bias)).v
       IN  /\ call.ret.out.shape = mean_path.shape
           /\ call.ret.out.v
                = [n \in 1..Len(mean_path.v) |->
                     mean_path.v[n]
                     + FMul(call.sign_output.v[n], perturbed.v[n])]

C9_Witness ==
    /\ ForwardOf("Flipout")
    /\ call.ret.kind = "pair"
    /\ ctor.args.bias
    /\ call.x.shape[1] = MaxBatch
    /\ \E n \in 1..Len(call.sign_output.v) : call.sign_output.v[n] = -1000
    /\ \E n \in 1..Len(call.sign_input.v) : call.sign_input.v[n] = -1000
    /\ \E n \in 1..Len(call.ret.out.v) : call.ret.out.v[n] # 0

\* C10: every forward call of a Flipout layer, on an input its operation
\* accepts, invokes the deterministic operation exactly twice, whatever
\* return_kl, bias, dnn_to_bnn_flag and quant_prepare are.
C10_TwoInvocations ==
    (ForwardOf("Flipout") /\ AcceptedInput(layer, call.x))
    => Len(call.ops) = 2

\* softplus of every element of rho, and the tensor mu + sigma * eps
Softplus(rho) == Tensor(rho.shape, [i \in 1..Len(rho.v) |-> softplus(rho.v[i])])

Sampled(mu, rho, eps) ==
    Tensor(mu.shape,
           [i \in 1..Len(mu.v) |-> mu.v[i] + FMul(softplus(rho.v[i]), eps.v[i])])

\* C11: a forward call of a Reparameterization layer that returns has drawn
\* eps_weight of the shape of mu_weight (and eps_bias of the shape of mu_bias
\* if the layer has a bias) and has invoked the deterministic operation once,
\* on the whole input batch, with weight mu_weight + softplus(rho_weight) *
\* eps_weight and bias mu_bias + softplus(rho_bias) * eps_bias (no bias for a
\* layer without bias).
C11_SampledOnce ==
    (ForwardOf("Reparameterization") /\ call.ret.kind \in {"pair", "out"})
    => /\ Len(call.ops) = 1
       /\ call.ops[1].input = call.x
       /\ layer.eps_weight = PatTensor(layer.mu_weight.shape, call.z.w)
       /\ call.ops[1].weight
            = Sampled(layer.mu_weight, layer.rho_weight, layer.eps_weight)
       /\ IF ctor.args.bias
          THEN /\ layer.eps_bias = PatTensor(layer.mu_bias.shape, call.z.b)
               /\ call.ops[1].bias
                    = Sampled(layer.mu_bias, layer.rho_bias, layer.eps_bias)
          ELSE call.ops[1].bias = None

C11_Witness ==
    /\ ForwardOf("Reparameterization")
    /\ layer.cls.op = "ConvTranspose1d"
    /\ call.ret.kind = "pair"
    /\ ctor.args.bias
    /\ call.x.shape[1] = MaxBatch
    /\ Len(call.ops) = 1
    /\ call.ops[1].weight # layer.mu_weight
    /\ call.ops[1].bias # layer.mu_bias

\* the KL of the layer l with sigma taken from the present value of rho
FreshKl(l) ==
    kl_div(l.mu_weight, Softplus(l.rho_weight), l.prior_weight_mu,
           l.prior_weight_sigma).v
    + (IF ctor.args.bias
       THEN kl_div(l.mu_bias, Softplus(l.rho_bias), l.prior_bias_mu,
                   l.prior_bias_sigma).v
       ELSE 0)

\* C12: whatever optimizer steps, forward calls and kl_loss calls came
\* before, the sigma a forward call or a kl_loss call uses is softplus of the
\* value rho has at that call: in the KL both return, in the weight a
\* Reparameterization forward samples, in the weight perturbation of a
\* Flipout forward.
C12_FreshSigma ==
    /\ (call.op = "kl_loss" /\ call.ret.kind = "ok")
       => call.ret.v = FreshKl(layer)
    /\ (call.op = "forward" /\ call.ret.kind = "pair")
       => call.ret.kl = FreshKl(layer)
    /\ (ForwardOf("Reparameterization") /\ Len(call.ops) = 1)
       => call.ops[1].weight
            = Sampled(layer.mu_weight, layer.rho_weight, layer.eps_weight)
    /\ (ForwardOf("Flipout") /\ Len(call.ops) = 2)
       => call.ops[2].weight = TMul(Softplus(layer.rho_weight), layer.eps_weight)

C12_Witness ==
    /\ call.op = "forward"
    /\ call.ret.kind = "pair"
    /\ layer.rho_weight.v[1] = -2100
    /\ call.ret.kl = FreshKl(layer)
    /\ layer.eps_weight.v[1] = 1000

\* C13: a kl_loss() call returns the KL of the present parameters and priors
\* and leaves the layer (parameters, prior buffers, noise buffers) as it was;
\* it records no invocation of the deterministic operation and needs no
\* forward call before it.
C13_KlLossReadsOnly ==
    [][call'.op = "kl_loss"
       => /\ layer' = layer
          /\ DOMAIN call' = {"op", "ret"}
          /\ call'.ret.kind = "ok" => call'.ret.v = FreshKl(layer)]_vars

C13_Witness ==
    /\ call.op = "kl_loss"
    /\ call.ret.kind = "ok"
    /\ call.ret.v # 0
    /\ layer.eps_weight = Fill(layer.mu_weight.shape, 7000)

\* C14: a forward call returns the same output and the same KL (or raises
\* the same error) whether or not prepare() has set quant_prepare, for the
\* same parameters, flag, input, return_kl and random draws.
C14_PrepareKeepsValues ==
    [][call'.op = "forward"
       => forward([layer EXCEPT !.quant_prepare = ~layer.quant_prepare],
                  dnn_to_bnn_flag, call'.x, call'.return_kl, call'.z).ret
            = call'.ret]_vars

C14_Witness ==
    /\ call.op = "forward"
    /\ call.quant_prepare
    /\ call.ret.kind = "pair"
    /\ \E n \in 1..Len(call.ret.out.v) : call.ret.out.v[n] % 100 # 0

\* C15: the KL that DMGPcifar.forward returns is the sum of the KLs its five
\* Bayesian layers returned in that call, each counted once, and nothing
\* else.
C15_NetworkKlIsSum ==
    (call.op = "net_forward" /\ call.ret.kind = "pair")
    => call.ret.kl
         = call.kls[1] + call.kls[2] + call.kls[3] + call.kls[4] + call.kls[5]

C15_Witness ==
    /\ call.op = "net_forward"
    /\ call.ret.kind = "pair"
    /\ call.kls = <<1500, 27000, 0, 1500, 27000>>
    /\ call.ret.kl = 57000

\* the closed form of the KL of one element, written out
ClosedForm(mu_q, sigma_q, mu_p, sigma_p, i) ==
    Ln(sigma_p.v[i]) - Ln(sigma_q.v[i])
    + ((sigma_q.v[i] * sigma_q.v[i]
        + (mu_q.v[i] - mu_p.v[i]) * (mu_q.v[i] - mu_p.v[i])) * 1000)
          \div (2 * sigma_p.v[i] * sigma_p.v[i])
    - 500

C17_SigmaPositive ==
    call.op = "log1p_exp" => call.ret.cls = "positive"

\* the first two dimensions the weight group of a layer is specified to have
LeadingDims(cls, a) ==
    IF IsLinear(cls) THEN <<a.out_channels, a.in_channels>>
    ELSE IF IsTransposed(cls)
    THEN <<a.in_channels, a.out_channels \div a.groups>>
    ELSE <<a.out_channels, a.in_channels \div a.groups>>

\* C18: in every constructed layer the prior-mean buffer, the prior-sigma
\* buffer and the noise buffer of each parameter group have the shape of the
\* group's mu and rho tensors, which is [out, in/groups, kernel dims] for
\* convolutions, [in, out/groups, kernel dims] for transposed convolutions
\* and [out, in] for linear layers.
C18_BufferShapes ==
    (/\ ctor.called
     /\ ctor.ret.kind = "ok"
     /\ ctor.args.in_channels % ctor.args.groups = 0
     /\ ctor.args.out_channels % ctor.args.groups = 0)
    => /\ SubSeq(layer.mu_weight.shape, 1, 2) = LeadingDims(ctor.cls, ctor.args)
       /\ Len(layer.mu_weight.shape) = 2 + NDims(ctor.cls)
       /\ layer.rho_weight.shape = layer.mu_weight.shape
       /\ layer.eps_weight.shape = layer.mu_weight.shape
       /\ layer.prior_weight_mu.shape = layer.mu_weight.shape
       /\ layer.prior_weight_sigma.shape = layer.mu_weight.shape
       /\ HasBias(layer)
            => /\ layer.rho_bias.shape = layer.mu_bias.shape
               /\ layer.eps_bias.shape = layer.mu_bias.shape
               /\ layer.prior_bias_mu.shape = layer.mu_bias.shape
               /\ layer.prior_bias_sigma.shape = layer.mu_bias.shape

\* C19: in a forward call of a Flipout layer with bias, the mean-path
\* application of the operation receives mu_weight and mu_bias, and the
\* perturbed-path application receives as its bias exactly
\* softplus(rho_bias) * eps_bias: not mu_bias, not mu_bias plus that product,
\* not no bias.
C19_FlipoutBiasRouting ==
    (ForwardOf("Flipout") /\ ctor.args.bias /\ Len(call.ops) = 2)
    => /\ call.ops[1].weight = layer.mu_weight
       /\ call.ops[1].bias = layer.mu_bias
       /\ ~call.ops[2].bias.none
       /\ call.ops[2].bias.shape = layer.mu_bias.shape
       /\ call.ops[2].bias.v
            = [i \in 1..Len(layer.mu_bias.v) |->
                 FMul(softplus(layer.rho_bias.v[i]), layer.eps_bias.v[i])]

C19_Witness ==
    /\ ForwardOf("Flipout")
    /\ ctor.args.bias
    /\ Len(call.ops) = 2
    /\ call.ret.kind = "pair"
    /\ \E i \in 1..Len(layer.mu_bias.v) : layer.mu_bias.v[i] # 0
    /\ \E i \in 1..Len(call.ops[2].bias.v) : call.ops[2].bias.v[i] # 0
    /\ call.ops[2].bias # call.ops[1].bias

\* C20: in every forward call of a Flipout layer that draws the sign tensors,
\* sign_input has the shape of the input, sign_output the shape of the
\* mean-path output, and every entry of both is -1 or +1, never 0, whatever
\* the uniform draws were.
C20_SignEntries ==
    (ForwardOf("Flipout") /\ ~call.sign_input.none)
    => /\ call.sign_input.shape = call.x.shape
       /\ call.sign_output.shape = ApplyOp(call.ops[1]).v.shape
       /\ \A i \in 1..Len(call.sign_input.v) :
             call.sign_input.v[i] \in {-1000, 1000}
       /\ \A i \in 1..Len(call.sign_output.v) :
             call.sign_output.v[i] \in {-1000, 1000}

\* the forward call used the noise of the layer: a Reparameterization call
\* samples the weight before it invokes the operation, a Flipout call builds
\* the perturbation for its second invocation
UsedNoise ==
    /\ call.op = "forward"
    /\ Len(call.ops) >= (IF layer.cls.est = "Flipout" THEN 2 ELSE 1)

\* C21: every forward call that uses the noise has first overwritten
\* eps_weight (and eps_bias, on a layer with bias) with the standard-normal
\* draw of that call, whatever return_kl and dnn_to_bnn_flag are; nothing a
\* previous call left in the buffers is used.
C21_FreshNoise ==
    UsedNoise
    => /\ layer.eps_weight = PatTensor(layer.mu_weight.shape, call.z.w)
       /\ ctor.args.bias
            => layer.eps_bias = PatTensor(layer.mu_bias.shape, call.z.b)

C21_Witness ==
    /\ UsedNoise
    /\ call.flag
    /\ ~call.return_kl
    /\ ctor.args.bias
    /\ call.ret.kind = "out"
    /\ call.z.w = <<-2000, 0>>
    /\ layer.eps_weight.v[1] = -2000
    /\ layer.eps_bias.v[1] = 1000

\* every element of the tensor t is c (nothing to hold for an absent tensor)
Holds(t, c) == \A i \in 1..Len(t.v) : t.v[i] = c

\* C22: from construction on, and after any sequence of forward, kl_loss,
\* prepare and init_parameters calls, every element of the prior-mean buffers
\* is the prior_mean and every element of the prior-sigma buffers the
\* prior_variance given to the constructor.
C22_PriorBuffers ==
    /\ Holds(layer.prior_weight_mu, ctor.args.prior_mean)
    /\ Holds(layer.prior_weight_sigma, ctor.args.prior_variance)
    /\ Len(layer.prior_weight_mu.v) = Numel(layer.mu_weight.shape)
    /\ Len(layer.prior_weight_sigma.v) = Numel(layer.mu_weight.shape)
    /\ Holds(layer.prior_bias_mu, ctor.args.prior_mean)
    /\ Holds(layer.prior_bias_sigma, ctor.args.prior_variance)
    /\ ctor.args.bias
         => /\ Len(layer.prior_bias_mu.v) = ctor.args.out_channels
            /\ Len(layer.prior_bias_sigma.v) = ctor.args.out_channels

C22_Witness ==
    /\ call.op = "init_parameters"
    /\ layer.quant_prepare
    /\ ctor.args.bias
    /\ layer.eps_weight.v[1] = -2000
    /\ Holds(layer.prior_bias_sigma, 2000)
    /\ Holds(layer.prior_weight_mu, 100)

\* the tensor t holds mean + 0.1 * z elementwise, z a standard-normal draw
DrawnAround(t, mean, z) ==
    \A i \in 1..Len(t.v) : t.v[i] = mean + FMul(100, z[((i - 1) % Len(z)) + 1])

\* C23: init_parameters() draws mu around the posterior_mu_init and rho
\* around the posterior_rho_init given to the constructor, with standard
\* deviation 0.1, for weight and bias alike, in the Reparameterization classes
\* (which store the two values as one-element tuples) and in the Flipout
\* classes (which store them as scalars).
C23_PosteriorInit ==
    call.op = "init_parameters"
    => /\ DrawnAround(layer.mu_weight, ctor.args.posterior_mu_init, call.d.mu_w)
       /\ DrawnAround(layer.rho_weight, ctor.args.posterior_rho_init,
                      call.d.rho_w)
       /\ DrawnAround(layer.mu_bias, ctor.args.posterior_mu_init, call.d.mu_b)
       /\ DrawnAround(layer.rho_bias, ctor.args.posterior_rho_init,
                      call.d.rho_b)
       /\ Len(layer.mu_weight.v) = Numel(layer.mu_weight.shape)
       /\ Len(layer.rho_weight.v) = Numel(layer.mu_weight.shape)
       /\ ctor.args.bias
            => /\ Len(layer.mu_bias.v) = ctor.args.out_channels
               /\ Len(layer.rho_bias.v) = ctor.args.out_channels

C23_Witness ==
    /\ call.op = "init_parameters"
    /\ layer.cls.est = "Reparameterization"
    /\ ctor.args.bias
    /\ ctor.args.posterior_mu_init = 200
    /\ ctor.args.posterior_rho_init = -100
    /\ layer.mu_weight.v[1] = 200
    /\ layer.rho_bias.v[1] = 0

\* the structural configuration of one invocation of the operation
Structure(c) ==
    [stride |-> c.stride, padding |-> c.padding, dilation |-> c.dilation,
     groups |-> c.groups, output_padding |-> c.output_padding]

\* C24: every invocation of the deterministic operation by a convolutional
\* layer receives the stride, padding, dilation and groups given to the
\* constructor, and a transposed one the output_padding as well; the two
\* invocations of a Flipout call receive the same configuration.
C24_StructurePassed ==
    (call.op = "forward" /\ ~IsLinear(layer.cls))
    => /\ \A n \in 1..Len(call.ops) :
             /\ call.ops[n].stride = ctor.args.stride
             /\ call.ops[n].padding = ctor.args.padding
             /\ call.ops[n].dilation = ctor.args.dilation
             /\ call.ops[n].groups = ctor.args.groups
             /\ IsTransposed(layer.cls)
                  => call.ops[n].output_padding = ctor.args.output_padding
       /\ Len(call.ops) = 2 => Structure(call.ops[1]) = Structure(call.ops[2])

C24_Witness ==
    /\ ForwardOf("Flipout")
    /\ IsTransposed(layer.cls)
    /\ Len(call.ops) = 2
    /\ call.ret.kind = "pair"
    /\ call.ops[2].stride = 2
    /\ call.ops[2].dilation = 3
    /\ call.ops[2].groups = MaxGroups
    /\ call.ops[2].padding = 0

\* C25: the layer does not serialise concurrent forward calls: while one
\* thread is between its draw and its product another thread can overwrite
\* the shared noise buffer, and the product of each thread is computed from
\* the draw of whichever thread wrote the buffer last, its own or not.
C25_NoSerialisation ==
    call.op = "concurrent"
    => \A t \in Threads :
          /\ \A u \in Threads :
                (call.pc[t] = "drawn" /\ call.pc[u] = "start")
                => ENABLED DrawNoise(u)
          /\ call.pc[t] = "done"
               => call.product[t]
                    = TMul(Sigma(layer.rho_weight),
                           PatTensor(layer.mu_weight.shape,
                                     call.z[call.src[t]]))

\* the race: thread 1 has multiplied the noise that thread 2 drew
C25_Witness ==
    /\ call.op = "concurrent"
    /\ call.pc[1] = "done"
    /\ call.src[1] = 2
    /\ call.z[1] # call.z[2]
    /\ call.product[1]
         # TMul(Sigma(layer.rho_weight),
                PatTensor(layer.mu_weight.shape, call.z[1]))

\* C26: a forward, kl_loss, prepare or init_parameters call on one instance
\* leaves every parameter, prior buffer and noise buffer of the other
\* instance, and its attributes, as they were.
C26_InstancesOwnTensors ==
    [][\A k \in Instances :
          (call'.op \in {"forward", "kl_loss", "prepare", "init_parameters"}
           /\ call'.instance = k)
          => \A m \in Instances \ {k} :
                Load(layer'.heap, layer'.objs[m])
                  = Load(layer.heap, layer.objs[m])]_vars

\* instance 1 has drawn noise and new parameters, instance 2 holds what its
\* constructor left
C26_Witness ==
    /\ call.op = "forward"
    /\ call.instance = 1
    /\ Load(layer.heap, layer.objs[1]).eps_weight.v[1] = -2000
    /\ Load(layer.heap, layer.objs[1]).mu_weight.v[1] = 100
    /\ Load(layer.heap, layer.objs[2]).eps_weight.v[1] = 7000
    /\ Load(layer.heap, layer.objs[2]).mu_weight.v[1] = 200
    /\ layer.objs[1].quant_prepare
    /\ ~layer.objs[2].quant_prepare

\* C27: a constructor given a prior_variance that is not positive raises
\* nothing and fills the prior-sigma buffers with the value as given, and no
\* later forward or kl_loss call raises on account of it: kl_loss returns,
\* and forward raises only what it raises under a valid prior (the error of
\* an operation that rejects the input, and the unbound local of C2).
C27_PriorNotValidated ==
    (ctor.called /\ ctor.args.prior_variance <= 0)
    => /\ ctor.ret.kind = "ok"
       /\ layer.exists
       /\ Holds(layer.prior_weight_sigma, ctor.args.prior_variance)
       /\ Holds(layer.prior_bias_sigma, ctor.args.prior_variance)
       /\ Len(layer.prior_weight_sigma.v) = Numel(layer.mu_weight.shape)
       /\ call.op = "kl_loss" => call.ret.kind = "ok"
       /\ (call.op = "forward" /\ call.ret.kind = "raise")
            => \/ ~AcceptedInput(layer, call.x) /\ call.ret.exc = "RuntimeError"
               \/ /\ ~BiasKlGuarded(layer.cls)
                  /\ call.ret.exc = "UnboundLocalError"

C27_Witness ==
    /\ ctor.called
    /\ ctor.args.prior_variance = -1000
    /\ ctor.args.bias
    /\ call.op = "forward"
    /\ AcceptedInput(layer, call.x)
    /\ call.ret.kind = "pair"
    /\ call.ret.kl = NaN
    /\ Holds(layer.prior_bias_sigma, -1000)

\* an input of one example that the operation of l accepts, and a draw
GoodInput(l) == PatTensor(InputShape(l, 1), <<1000, -2000, 3000>>)

SomeDraw == CHOOSE z \in Draws : z.w[1] = 1000

\* C28: when the deterministic operation rejects the input of a forward
\* call, the call raises the operation's error as it is, mu, rho and the
\* prior buffers are as before the call, and the layer is usable afterwards:
\* kl_loss returns and forward on an accepted input returns its pair.
C28_RejectedInput ==
    [][(call'.op = "forward" /\ call' # call
        /\ ~AcceptedInput(layer, call'.x))
       => /\ call'.ret.kind = "raise"
          /\ call'.ret.exc = "RuntimeError"
          /\ call'.ret.exc = ApplyOp(call'.ops[Len(call'.ops)]).exc
          /\ Parameters(layer') = Parameters(layer)
          /\ layer'.quant_prepare = layer.quant_prepare
          /\ kl_loss(layer').kind = "ok"
          /\ forward(layer', FALSE, GoodInput(layer'), TRUE, SomeDraw).ret.kind
               = "pair"]_vars

C28_Witness ==
    /\ call.op = "forward"
    /\ ~AcceptedInput(layer, call.x)
    /\ call.ret.kind = "raise"
    /\ call.ret.exc = "RuntimeError"
    /\ layer.cls.est = "Flipout"
    /\ ~IsLinear(layer.cls)
    /\ layer.eps_weight.v[1] = 1000
    /\ layer.rho_weight.v[1] < -2000

\* the noise the last invocation of the operation was computed from is what
\* the buffers of l hold: the sampled weight and bias of a Reparameterization
\* call, the perturbation of a Flipout call
HoldsUsedNoise(l, c) ==
    IF l.cls.est = "Flipout"
    THEN /\ c.weight = TMul(Sigma(l.rho_weight), l.eps_weight)
         /\ HasBias(l) => c.bias = TMul(Sigma(l.rho_bias), l.eps_bias)
    ELSE /\ c.weight = TAdd(l.mu_weight, TMul(Sigma(l.rho_weight), l.eps_weight))
         /\ HasBias(l)
              => c.bias = TAdd(l.mu_bias, TMul(Sigma(l.rho_bias), l.eps_bias))

\* C29: when a forward call returns, the noise buffers hold the eps values
\* its output was computed from, and every call that is not a forward call
\* leaves them as they are: the layer holds the noise of its most recent
\* forward call, and only of that one.
C29_NoiseOfLastCall ==
    [][/\ (call'.op = "forward" /\ call'.ret.kind \in {"pair", "out"})
          => HoldsUsedNoise(layer', call'.ops[Len(call'.ops)])
       /\ call'.op # "forward"
          => /\ layer'.eps_weight = layer.eps_weight
             /\ layer'.eps_bias = layer.eps_bias]_vars

\* kl_loss after a forward call: the buffers still hold that call's draw
C29_Witness ==
    /\ call.op = "kl_loss"
    /\ ctor.args.bias
    /\ layer.quant_prepare
    /\ layer.eps_weight = PatTensor(layer.mu_weight.shape, <<-2000, 0>>)
    /\ layer.eps_bias = PatTensor(layer.mu_bias.shape, <<1000, -1000>>)

\* C30: in DMGPcifar.forward every call of a Bayesian layer yields a pair
\* that is unpacked into the activation and the KL, also when dnn_to_bnn_flag
\* is set, so that the network forward always returns (output, KL sum).
C30_AlwaysPair ==
    call.op = "net_forward" => call.ret.kind = "pair"

====
